---- MODULE Spec2Model ----
(***************************************************************************)
(* A model of VtsVndkDependencyTest (dependency/VtsVndkDependencyTest.py): *)
(* the sweep that loads ELF objects from the odm and vendor partitions,    *)
(* the resolution of the same-process-HAL namespace, the depth-first       *)
(* search for dependencies, the three dependency checks and the            *)
(* per-bitness orchestration of testElfDependency.                         *)
(*                                                                         *)
(* A target path is the sequence of its segments: "/vendor/lib64/hw/a.so"  *)
(* is <<"vendor", "lib64", "hw", "a.so">>.  A directory is a path too.     *)
(***************************************************************************)
EXTENDS Integers, Sequences, FiniteSets, TLC

VARIABLES
    pc,           \* position in testElfDependency / in the pure-function runs
    is64Bit,      \* self._dut.is64Bit
    enforced,     \* what vndk_utils.IsVndkRuntimeEnforced(self._dut) answers
    scanned,      \* index (in scan order) of the last file iterate_files gave
    nscanned,     \* number of files iterate_files gave so far
    objs,         \* objs of _LoadElfObjects / of testElfDependency
    read_errors,  \* read_errors of testElfDependency
    last,         \* the last file of the sweep and what the sweep logged for it
    dep_errors,   \* dep_errors of testElfDependency
    locals,       \* per bitness: the locals of _TestElfDependency at its return
    queries,      \* number of calls of IsVndkRuntimeEnforced in this run
    verdict,      \* error_count given to assertEqual, or -1 before the report
    result,       \* the value returned by the last pure-function application
    dfs           \* the calls of _DfsDependencies in progress over one searched set

vars == <<pc, is64Bit, enforced, scanned, nscanned, objs, read_errors, last,
          dep_errors, locals, queries, verdict, result, dfs>>

(***************************************************************************)
(* Bounds of the model.                                                    *)
(***************************************************************************)
\* files on the device in one run of the sweep
MaxFiles == 3
\* records given to one application of a pure function
MaxObjs == 3

(***************************************************************************)
(* Class attributes.                                                       *)
(***************************************************************************)
SP_HAL_LINK_PATHS ==
    << <<"odm", "{LIB}", "egl">>, <<"odm", "{LIB}", "hw">>, <<"odm", "{LIB}">>,
       <<"vendor", "{LIB}", "egl">>, <<"vendor", "{LIB}", "hw">>,
       <<"vendor", "{LIB}">> >>

VENDOR_LINK_PATHS ==
    << <<"odm", "{LIB}", "hw">>, <<"odm", "{LIB}", "egl">>, <<"odm", "{LIB}">>,
       <<"vendor", "{LIB}", "hw">>, <<"vendor", "{LIB}", "egl">>,
       <<"vendor", "{LIB}">> >>

VENDOR_APP_DIRS ==
    << <<"vendor", "app">>, <<"vendor", "priv-app">>, <<"odm", "app">>,
       <<"odm", "priv-app">> >>

DEFAULT_PROGRAM_INTERPRETERS == <<"/system/bin/linker", "/system/bin/linker64">>

(***************************************************************************)
(* Sequences and paths.                                                    *)
(***************************************************************************)
\* x in seq
InSeq(x, seq) == \E i \in DOMAIN seq : seq[i] = x

\* seq.index(x), for x in seq
IndexOf(seq, x) == CHOOSE i \in DOMAIN seq : seq[i] = x /\ \A j \in 1..(i - 1) : seq[j] # x

Range(seq) == {seq[i] : i \in DOMAIN seq}

\* the enumerations of a finite set: the orders in which Python may iterate it
Orders(S) == {q \in [1..Cardinality(S) -> S] : \A i, j \in DOMAIN q : i # j => q[i] # q[j]}

EmptyMap == [x \in {} |-> x]

\* path_utils.TargetBaseName / TargetDirName
TargetBaseName(path) == path[Len(path)]

TargetDirName(path) == SubSeq(path, 1, Len(path) - 1)

\* path.startswith(dir + "/")
StartsWithDir(path, dir) == Len(path) > Len(dir) /\ SubSeq(path, 1, Len(dir)) = dir

\* the path segments of the model that contain ".so"
DotSoSegments == {"libhw.so", "libfoo.so", "libext.so", "libarib.so", "libapp.so"}

\* ".so" in target_path
ContainsDotSo(path) == \E i \in DOMAIN path : path[i] \in DotSoSegments

\* vndk_utils.FormatVndkPath(pattern, bitness)
FormatVndkPath(pattern, bitness) ==
    [i \in DOMAIN pattern |->
        IF pattern[i] = "{LIB}" THEN (IF bitness = 64 THEN "lib64" ELSE "lib")
        ELSE pattern[i]]

\* vndk_utils.GetVndkSpExtDirectories(bitness)
GetVndkSpExtDirectories(bitness) ==
    << FormatVndkPath(<<"odm", "{LIB}", "vndk-sp">>, bitness),
       FormatVndkPath(<<"vendor", "{LIB}", "vndk-sp">>, bitness) >>

ElfObject(target_path, bitness, deps) ==
    [target_path |-> target_path,
     name |-> TargetBaseName(target_path),
     target_dir |-> TargetDirName(target_path),
     bitness |-> bitness,
     deps |-> deps]

(***************************************************************************)
(* The golden lists loaded by setUpClass.  sp_hal stands for the compiled  *)
(* patterns: the target paths of the model that one of them matches.       *)
(***************************************************************************)
ll_ndk == {"libc.so"}

vndk == {"libvndk.so"}

vndk_sp == {"libvndksp.so"}

sp_hal ==
    { <<"vendor", "lib64", "hw", "libhw.so">>, <<"odm", "lib64", "hw", "libhw.so">>,
      <<"vendor", "lib64", "egl", "libhw.so">>, <<"vendor", "lib", "hw", "libhw.so">> }

\* any(x.match(obj.target_path) for x in self._sp_hal)
MatchesSpHal(obj) == obj.target_path \in sp_hal

(***************************************************************************)
(* The ELF parser and the device, at their interface.  An ELF file is      *)
(*   [is_elf, machine, bitness, e_type, interp, has_android_ident, fail,   *)
(*    deps]: fail names the accessor that raises ElfError ("none", "interp"*)
(*   or "deps"); interp is "" when the file has no .interp section.        *)
(* A file of the device is [target_path, perm_x, elf].                     *)
(***************************************************************************)
\* elf.MatchCpuAbi(abi)
MatchCpuAbi(elf, abi) ==
    \/ elf.machine = "EM_AARCH64" /\ abi = "arm64-v8a"
    \/ elf.machine = "EM_ARM" /\ abi \in {"armeabi-v7a", "armeabi"}

\* self._dut.getCpuAbiList()
GetCpuAbiList(is64) ==
    IF is64 THEN <<"arm64-v8a", "armeabi-v7a", "armeabi">>
    ELSE <<"armeabi-v7a", "armeabi">>

\* a variant that skips the executables that do have execute permission
IsElfObjectForApSkipsExecutable(elf, perm_x, abi_list) ==
    IF ~\E i \in DOMAIN abi_list : MatchCpuAbi(elf, abi_list[i]) THEN "False"
    ELSE IF elf.e_type # "ET_EXEC" THEN "True"
    ELSE IF elf.fail = "interp" THEN "ElfError"
    ELSE IF elf.interp = "" \/ InSeq(elf.interp, DEFAULT_PROGRAM_INTERPRETERS) THEN "True"
    ELSE IF perm_x THEN "False"
    ELSE "True"

\* "True", "False", or "ElfError" when the parser raises
IsElfObjectForAp(elf, perm_x, abi_list) ==
    IF ~\E i \in DOMAIN abi_list : MatchCpuAbi(elf, abi_list[i]) THEN "False"
    ELSE IF elf.e_type # "ET_EXEC" THEN "True"
    ELSE IF elf.fail = "interp" THEN "ElfError"
    ELSE IF elf.interp = "" \/ InSeq(elf.interp, DEFAULT_PROGRAM_INTERPRETERS) THEN "True"
    ELSE IF perm_x THEN "True"
    ELSE "False"

\* a variant that asks for an executable ELF type and execute permission both
IsElfObjectBuiltForAndroidBoth(elf, target_path, perm_x) ==
    IF elf.has_android_ident THEN "True"
    ELSE IF /\ StartsWithDir(target_path, <<"vendor", "arib", "lib">>)
            /\ ContainsDotSo(target_path)
            /\ elf.e_type = "ET_DYN"
         THEN "False"
    ELSE IF StartsWithDir(target_path, <<"vendor", "arib", "bin">>)
         THEN IF elf.fail = "interp" THEN "ElfError"
              ELSE IF /\ elf.interp # ""
                      /\ ~InSeq(elf.interp, DEFAULT_PROGRAM_INTERPRETERS)
                      /\ (elf.e_type = "ET_EXEC" /\ perm_x)
                   THEN "False"
              ELSE "True"
    ELSE "True"

\* "True", "False", or "ElfError" when the parser raises
IsElfObjectBuiltForAndroid(elf, target_path, perm_x) ==
    IF elf.has_android_ident THEN "True"
    ELSE IF /\ StartsWithDir(target_path, <<"vendor", "arib", "lib">>)
            /\ ContainsDotSo(target_path)
            /\ elf.e_type = "ET_DYN"
         THEN "False"
    ELSE IF StartsWithDir(target_path, <<"vendor", "arib", "bin">>)
         THEN IF elf.fail = "interp" THEN "ElfError"
              ELSE IF /\ elf.interp # ""
                      /\ ~InSeq(elf.interp, DEFAULT_PROGRAM_INTERPRETERS)
                      /\ (elf.e_type = "ET_EXEC" \/ perm_x)
                   THEN "False"
              ELSE "True"
    ELSE "True"

\* a variant that skips a file whose dependencies cannot be listed as it
\* skips a file that is not an ELF file
LoadOutcomeSkipsUnreadable(f, abi_list) ==
    IF ~f.elf.is_elf THEN "not_elf"
    ELSE LET ap == IsElfObjectForAp(f.elf, f.perm_x, abi_list) IN
         IF ap = "ElfError" THEN "read_error"
         ELSE IF ap = "False" THEN "not_for_ap"
         ELSE LET built == IsElfObjectBuiltForAndroid(f.elf, f.target_path, f.perm_x) IN
              IF built = "ElfError" THEN "read_error"
              ELSE IF built = "False" THEN "not_built"
              ELSE IF f.elf.fail = "deps" THEN "not_elf"
              ELSE "loaded"

\* One iteration of the loop of _LoadElfObjects: what it does with file f.
LoadOutcome(f, abi_list) ==
    IF ~f.elf.is_elf THEN "not_elf"
    ELSE LET ap == IsElfObjectForAp(f.elf, f.perm_x, abi_list) IN
         IF ap = "ElfError" THEN "read_error"
         ELSE IF ap = "False" THEN "not_for_ap"
         ELSE LET built == IsElfObjectBuiltForAndroid(f.elf, f.target_path, f.perm_x) IN
              IF built = "ElfError" THEN "read_error"
              ELSE IF built = "False" THEN "not_built"
              ELSE IF f.elf.fail = "deps" THEN "read_error"
              ELSE "loaded"

(***************************************************************************)
(* _DfsDependencies: the set searched after the call.  DfsDeps is the loop *)
(* over lib.deps from position i on.                                       *)
(***************************************************************************)
RECURSIVE DfsDependencies(_, _, _)
RECURSIVE DfsDeps(_, _, _, _)
\* a variant that adds the libraries a library depends on and goes no deeper
DfsOneLevel(lib, searched, searchable) ==
    IF lib \in searched THEN searched
    ELSE searched \cup {lib}
             \cup {searchable[d] : d \in Range(lib.deps) \cap DOMAIN searchable}

\* a variant of the loop that stops at the first dependency name it cannot resolve
DfsDepsUntilUnresolved(deps, i, searched, searchable) ==
    IF i > Len(deps) THEN searched
    ELSE IF deps[i] \notin DOMAIN searchable THEN searched
    ELSE DfsDeps(deps, i + 1,
                 DfsDependencies(searchable[deps[i]], searched, searchable),
                 searchable)

DfsDependencies(lib, searched, searchable) ==
    IF lib \in searched THEN searched
    ELSE DfsDeps(lib.deps, 1, searched \cup {lib}, searchable)

DfsDeps(deps, i, searched, searchable) ==
    IF i > Len(deps) THEN searched
    ELSE DfsDeps(deps, i + 1,
                 IF deps[i] \in DOMAIN searchable
                 THEN DfsDependencies(searchable[deps[i]], searched, searchable)
                 ELSE searched,
                 searchable)

\* for lib in roots: self._DfsDependencies(lib, searched, searchable)
RECURSIVE DfsEach(_, _, _)
DfsEach(roots, searched, searchable) ==
    IF roots = <<>> THEN searched
    ELSE DfsEach(Tail(roots), DfsDependencies(Head(roots), searched, searchable),
                 searchable)

(***************************************************************************)
(* _FindLibsInSpHalNamespace.                                              *)
(***************************************************************************)
\* a variant that keeps the library seen first
KeepFirstSeen(a, b, sp_hal_link_paths) == a

\* min(a, b, key=lambda x: sp_hal_link_paths.index(x.target_dir))
MinByLinkPath(a, b, sp_hal_link_paths) ==
    IF IndexOf(sp_hal_link_paths, b.target_dir) < IndexOf(sp_hal_link_paths, a.target_dir)
    THEN b ELSE a

SpHalLinkPaths(bitness) ==
    [i \in DOMAIN SP_HAL_LINK_PATHS |-> FormatVndkPath(SP_HAL_LINK_PATHS[i], bitness)]

\* a variant in which the library seen last replaces the one in the map
FindLibsLastWins(bitness, all_objs) ==
    LET sp_hal_link_paths == SpHalLinkPaths(bitness)
        vendor_libs == SelectSeq(all_objs,
                           LAMBDA obj : /\ obj.bitness = bitness
                                        /\ InSeq(obj.target_dir, sp_hal_link_paths))
        linkable_libs[i \in 0..Len(vendor_libs)] ==
            IF i = 0 THEN EmptyMap
            ELSE LET obj == vendor_libs[i]
                     before == linkable_libs[i - 1]
                 IN IF obj.name \notin DOMAIN before
                    THEN before @@ (obj.name :> obj)
                    ELSE [before EXCEPT ![obj.name] = obj]
    IN linkable_libs[Len(vendor_libs)]

FindLibsInSpHalNamespace(bitness, all_objs) ==
    LET sp_hal_link_paths == SpHalLinkPaths(bitness)
        vendor_libs == SelectSeq(all_objs,
                           LAMBDA obj : /\ obj.bitness = bitness
                                        /\ InSeq(obj.target_dir, sp_hal_link_paths))
        linkable_libs[i \in 0..Len(vendor_libs)] ==
            IF i = 0 THEN EmptyMap
            ELSE LET obj == vendor_libs[i]
                     before == linkable_libs[i - 1]
                 IN IF obj.name \notin DOMAIN before
                    THEN before @@ (obj.name :> obj)
                    ELSE [before EXCEPT ![obj.name] =
                              MinByLinkPath(before[obj.name], obj, sp_hal_link_paths)]
    IN linkable_libs[Len(vendor_libs)]

(***************************************************************************)
(* _FilterDisallowedDependencies and the three checks.  The predicate is a *)
(* function of (library name, object), as the lambdas are.                 *)
(***************************************************************************)
DepNames(checked) == UNION {Range(checked[i].deps) : i \in DOMAIN checked}

\* a variant that lists each disallowed name once
FilterWithoutDuplicates(checked, is_allowed_dependency) ==
    LET dep_errors_at[i \in 0..Len(checked)] ==
            IF i = 0 THEN <<>>
            ELSE LET obj == checked[i]
                     disallowed_libs ==
                         SelectSeq(obj.deps, LAMBDA x : ~is_allowed_dependency[x, obj])
                     first == {k \in DOMAIN disallowed_libs :
                                  \A j \in 1..(k - 1) : disallowed_libs[j] # disallowed_libs[k]}
                     once[k \in 0..Len(disallowed_libs)] ==
                         IF k = 0 THEN <<>>
                         ELSE IF k \in first THEN Append(once[k - 1], disallowed_libs[k])
                         ELSE once[k - 1]
                 IN IF disallowed_libs # <<>>
                    THEN Append(dep_errors_at[i - 1],
                                <<obj.target_path, once[Len(disallowed_libs)]>>)
                    ELSE dep_errors_at[i - 1]
    IN dep_errors_at[Len(checked)]

FilterDisallowedDependencies(checked, is_allowed_dependency) ==
    LET dep_errors_at[i \in 0..Len(checked)] ==
            IF i = 0 THEN <<>>
            ELSE LET obj == checked[i]
                     disallowed_libs ==
                         SelectSeq(obj.deps, LAMBDA x : ~is_allowed_dependency[x, obj])
                 IN IF disallowed_libs # <<>>
                    THEN Append(dep_errors_at[i - 1], <<obj.target_path, disallowed_libs>>)
                    ELSE dep_errors_at[i - 1]
    IN dep_errors_at[Len(checked)]

\* vendor_app_lib_names of _TestVendorDependency
VendorAppLibNames(vendor_objs) ==
    LET app_objs == {obj \in Range(vendor_objs) :
                        \E i \in DOMAIN VENDOR_APP_DIRS :
                            StartsWithDir(obj.target_dir, VENDOR_APP_DIRS[i])}
    IN [d \in {obj.target_dir : obj \in app_objs} |->
           {obj.name : obj \in {o \in app_objs : o.target_dir = d}}]

\* a variant without the exception for the libraries of an application
VendorNoAppException(vendor_objs, vendor_libs) ==
    LET vendor_lib_names == {x.name : x \in vendor_libs}
    IN [name \in DepNames(vendor_objs), obj \in Range(vendor_objs) |->
           \/ name \in ll_ndk
           \/ name \in vndk
           \/ name \in vndk_sp
           \/ name \in vendor_lib_names]

VendorIsAllowedDep(vendor_objs, vendor_libs) ==
    LET vendor_lib_names == {x.name : x \in vendor_libs}
        vendor_app_lib_names == VendorAppLibNames(vendor_objs)
    IN [name \in DepNames(vendor_objs), obj \in Range(vendor_objs) |->
           \/ name \in ll_ndk
           \/ name \in vndk
           \/ name \in vndk_sp
           \/ name \in vendor_lib_names
           \/ /\ obj.target_dir \in DOMAIN vendor_app_lib_names
              /\ name \in vendor_app_lib_names[obj.target_dir]]

TestVendorDependency(vendor_objs, vendor_libs) ==
    FilterDisallowedDependencies(vendor_objs, VendorIsAllowedDep(vendor_objs, vendor_libs))

\* a variant that lets VNDK-SP extensions depend on VNDK, as vendor objects may
VndkSpExtAllowsVndk(vndk_sp_ext_deps, vendor_libs) ==
    LET vendor_lib_names == {x.name : x \in vendor_libs}
    IN [x \in DepNames(vndk_sp_ext_deps), obj \in Range(vndk_sp_ext_deps) |->
           \/ x \in ll_ndk
           \/ x \in vndk
           \/ x \in vndk_sp
           \/ x \in vendor_lib_names]

VndkSpExtIsAllowedDep(vndk_sp_ext_deps, vendor_libs) ==
    LET vendor_lib_names == {x.name : x \in vendor_libs}
    IN [x \in DepNames(vndk_sp_ext_deps), obj \in Range(vndk_sp_ext_deps) |->
           \/ x \in ll_ndk
           \/ x \in vndk_sp
           \/ x \in vendor_lib_names]

TestVndkSpExtDependency(vndk_sp_ext_deps, vendor_libs) ==
    FilterDisallowedDependencies(vndk_sp_ext_deps,
                                 VndkSpExtIsAllowedDep(vndk_sp_ext_deps, vendor_libs))

\* a variant that lets same-process HALs depend on VNDK, as vendor objects may
SpHalAllowsVndk(sp_hal_libs) ==
    LET sp_hal_lib_names == {x.name : x \in Range(sp_hal_libs)}
    IN [x \in DepNames(sp_hal_libs), obj \in Range(sp_hal_libs) |->
           \/ x \in ll_ndk
           \/ x \in vndk
           \/ x \in vndk_sp
           \/ x \in sp_hal_lib_names]

SpHalIsAllowedDep(sp_hal_libs) ==
    LET sp_hal_lib_names == {x.name : x \in Range(sp_hal_libs)}
    IN [x \in DepNames(sp_hal_libs), obj \in Range(sp_hal_libs) |->
           \/ x \in ll_ndk
           \/ x \in vndk_sp
           \/ x \in sp_hal_lib_names]

TestSpHalDependency(sp_hal_libs) ==
    FilterDisallowedDependencies(sp_hal_libs, SpHalIsAllowedDep(sp_hal_libs))

(***************************************************************************)
(* The devices of the model.  iterate_files gives the files of a device in *)
(* the order of ScanPaths / SweepPaths; every path may be absent.          *)
(***************************************************************************)
MachineOf(bitness) == IF bitness = 64 THEN "EM_AARCH64" ELSE "EM_ARM"

\* a shared library built by the Android build system
SharedLib(target_path, bitness, deps) ==
    [target_path |-> target_path, perm_x |-> FALSE,
     elf |-> [is_elf |-> TRUE, machine |-> MachineOf(bitness), bitness |-> bitness,
              e_type |-> "ET_DYN", interp |-> "", has_android_ident |-> TRUE,
              fail |-> "none", deps |-> deps]]

\* the same file with a dynamic section the parser cannot read
Malformed(file) == [file EXCEPT !.elf.fail = "deps"]

\* the paths of the device of a whole run, in scan order
ScanPaths ==
    << <<"vendor", "lib64", "libhw.so">>,
       <<"vendor", "lib64", "hw", "libhw.so">>,
       <<"vendor", "lib64", "libfoo.so">>,
       <<"vendor", "lib64", "vndk-sp", "libext.so">>,
       <<"vendor", "app", "App", "libapp.so">>,
       <<"vendor", "lib", "hw", "libhw.so">>,
       <<"vendor", "lib", "libfoo.so">> >>

BitnessOfPath(path) == IF InSeq("lib", path) THEN 32 ELSE 64

\* the dependency lists a library of a whole run may declare
ScanDeps ==
    { <<"libc.so", "libvndksp.so">>,
      <<"libvndk.so">>,
      <<"libfoo.so", "libvndk.so">>,
      <<"libhw.so", "libforbidden.so">> }

ScanFiles(i) ==
    LET path == ScanPaths[i]
        libs == {SharedLib(path, BitnessOfPath(path), deps) : deps \in ScanDeps}
    IN libs \cup {Malformed(SharedLib(path, BitnessOfPath(path), <<>>))}

\* the paths of the device of a sweep alone, in scan order
SweepPaths ==
    << <<"vendor", "arib", "lib", "libarib.so">>,
       <<"vendor", "arib", "lib", "data">>,
       <<"vendor", "arib", "bin", "tool">>,
       <<"vendor", "bin", "service">> >>

SweepFiles(i) ==
    LET elfs == [is_elf : {TRUE},
                 machine : {"EM_AARCH64", "EM_ARM"},
                 bitness : {32, 64},
                 e_type : {"ET_EXEC", "ET_DYN", "ET_REL"},
                 interp : {"", "/system/bin/linker64", "/vendor/arib/lib/ld.so"},
                 has_android_ident : BOOLEAN,
                 fail : {"none", "interp", "deps"},
                 deps : {<<"libc.so">>}]
        not_elf == [is_elf |-> FALSE, machine |-> "EM_NONE", bitness |-> 32,
                    e_type |-> "ET_NONE", interp |-> "", has_android_ident |-> FALSE,
                    fail |-> "none", deps |-> <<>>]
    IN {[target_path |-> SweepPaths[i], perm_x |-> x, elf |-> e] :
           x \in BOOLEAN,
           e \in {e \in elfs : e.bitness = (IF e.machine = "EM_ARM" THEN 32 ELSE 64)}
                 \cup {not_elf}}

NoFile ==
    [target_path |-> <<>>, perm_x |-> FALSE,
     elf |-> [is_elf |-> FALSE, machine |-> "EM_NONE", bitness |-> 32,
              e_type |-> "ET_NONE", interp |-> "", has_android_ident |-> FALSE,
              fail |-> "none", deps |-> <<>>]]

NotRun ==
    [ran |-> FALSE, enforced |-> FALSE, vendor_libs |-> {}, sp_hal_namespace |-> EmptyMap,
     sp_hal_libs |-> {}, vndk_sp_ext_libs |-> {}, vndk_sp_ext_deps |-> {},
     vendor_objs |-> {}, ext_checked |-> {}, vendor_errors |-> <<>>, ext_errors |-> <<>>,
     sp_hal_errors |-> <<>>, returned |-> <<>>]

NoResult == [op |-> "none"]

NoDfs == [roots |-> <<>>, stack |-> <<>>, searched |-> {}]

(***************************************************************************)
(* testElfDependency.                                                      *)
(***************************************************************************)
Init ==
    /\ pc = "load"
    /\ is64Bit \in BOOLEAN
    /\ enforced \in BOOLEAN
    /\ scanned = 0
    /\ nscanned = 0
    /\ objs = <<>>
    /\ read_errors = <<>>
    /\ last = [file |-> NoFile, outcome |-> "none"]
    /\ dep_errors = <<>>
    /\ locals = [b \in {32, 64} |-> NotRun]
    /\ queries = 0
    /\ verdict = -1
    /\ result = NoResult
    /\ dfs = NoDfs

\* One iteration of the loop of _LoadElfObjects, on the i-th file f of the scan.
LoadStep(i, f) ==
    /\ pc = "load"
    /\ i > scanned
    /\ nscanned < MaxFiles
    /\ LET outcome == LoadOutcome(f, GetCpuAbiList(is64Bit)) IN
        /\ objs' = IF outcome = "loaded"
                   THEN Append(objs, ElfObject(f.target_path, f.elf.bitness, f.elf.deps))
                   ELSE objs
        /\ read_errors' = IF outcome = "read_error"
                          THEN Append(read_errors, <<f.target_path, "ElfError">>)
                          ELSE read_errors
        /\ last' = [file |-> f, outcome |-> outcome]
    /\ scanned' = i
    /\ nscanned' = nscanned + 1
    /\ UNCHANGED <<pc, is64Bit, enforced, dep_errors, locals, queries, verdict, result, dfs>>

LoadFile == \E i \in DOMAIN ScanPaths : \E f \in ScanFiles(i) : LoadStep(i, f)

\* iterate_files is exhausted: _LoadElfObjects returns objs
LoadReturn ==
    /\ pc = "load"
    /\ pc' = "test32"
    /\ UNCHANGED <<is64Bit, enforced, scanned, nscanned, objs, read_errors, last,
                   dep_errors, locals, queries, verdict, result, dfs>>

\* a variant that keeps the errors whatever the signal says
DowngradeNever(is_enforced, errors) == errors

\* a variant that checks the whole closure as VNDK-SP extensions
VndkSpExtCheckedWhole(vndk_sp_ext_deps, sp_hal_libs) == vndk_sp_ext_deps

\* vndk_sp_ext_deps - sp_hal_libs, the set given to _TestVndkSpExtDependency
VndkSpExtChecked(vndk_sp_ext_deps, sp_hal_libs) == vndk_sp_ext_deps \ sp_hal_libs

\* vendor_link_paths of _TestElfDependency
VendorLinkPaths(bitness) ==
    [i \in DOMAIN VENDOR_LINK_PATHS |-> FormatVndkPath(VENDOR_LINK_PATHS[i], bitness)]

\* if not vndk_utils.IsVndkRuntimeEnforced(self._dut): dep_errors = []
Downgrade(is_enforced, errors) == IF ~is_enforced THEN <<>> ELSE errors

\* _TestElfDependency(bitness, objs): the sets are iterated in any order
TestElfDependency(bitness) ==
    LET vndk_sp_ext_dirs == GetVndkSpExtDirectories(bitness)
        vendor_link_paths == VendorLinkPaths(bitness)
        vendor_libs == {obj \in Range(objs) : /\ obj.bitness = bitness
                                              /\ InSeq(obj.target_dir, vendor_link_paths)}
        sp_hal_namespace == FindLibsInSpHalNamespace(bitness, objs)
        vndk_sp_ext_libs == {obj \in Range(objs) : /\ obj.bitness = bitness
                                                   /\ InSeq(obj.target_dir, vndk_sp_ext_dirs)}
    IN \E values \in Orders({sp_hal_namespace[n] : n \in DOMAIN sp_hal_namespace}) :
       \E ext_libs \in Orders(vndk_sp_ext_libs) :
        LET sp_hal_libs == DfsEach(SelectSeq(values, MatchesSpHal), {}, sp_hal_namespace)
            vndk_sp_ext_deps == DfsEach(ext_libs, {}, sp_hal_namespace)
            vendor_objs == {obj \in Range(objs) : /\ obj.bitness = bitness
                                                 /\ obj \notin sp_hal_libs
                                                 /\ obj \notin vndk_sp_ext_deps}
            ext_checked == VndkSpExtChecked(vndk_sp_ext_deps, sp_hal_libs)
        IN \E vendor_order \in Orders(vendor_objs) :
           \E ext_order \in Orders(ext_checked) :
           \E sp_hal_order \in Orders(sp_hal_libs) :
            LET vendor_errors == TestVendorDependency(vendor_order, vendor_libs)
                ext_errors == TestVndkSpExtDependency(ext_order, vendor_libs)
                kept == Downgrade(enforced, vendor_errors \o ext_errors)
                sp_hal_errors == TestSpHalDependency(sp_hal_order)
                returned == kept \o sp_hal_errors
            IN /\ locals' = [locals EXCEPT ![bitness] =
                    [ran |-> TRUE, enforced |-> enforced, vendor_libs |-> vendor_libs,
                     sp_hal_namespace |-> sp_hal_namespace, sp_hal_libs |-> sp_hal_libs,
                     vndk_sp_ext_libs |-> vndk_sp_ext_libs,
                     vndk_sp_ext_deps |-> vndk_sp_ext_deps, vendor_objs |-> vendor_objs,
                     ext_checked |-> ext_checked,
                     vendor_errors |-> vendor_errors, ext_errors |-> ext_errors,
                     sp_hal_errors |-> sp_hal_errors, returned |-> returned]]
               /\ dep_errors' = dep_errors \o returned
               /\ queries' = queries + 1

\* a variant that never runs the 64-bit pass
Test32Only ==
    /\ pc = "test32"
    /\ TestElfDependency(32)
    /\ pc' = "report"
    /\ UNCHANGED <<is64Bit, enforced, scanned, nscanned, objs, read_errors, last,
                   verdict, result, dfs>>

Test32 ==
    /\ pc = "test32"
    /\ TestElfDependency(32)
    /\ pc' = IF is64Bit THEN "test64" ELSE "report"
    /\ UNCHANGED <<is64Bit, enforced, scanned, nscanned, objs, read_errors, last,
                   verdict, result, dfs>>

Test64 ==
    /\ pc = "test64"
    /\ TestElfDependency(64)
    /\ pc' = "report"
    /\ UNCHANGED <<is64Bit, enforced, scanned, nscanned, objs, read_errors, last,
                   verdict, result, dfs>>

\* a variant that counts the disallowed dependencies only
ReportDepErrorsOnly ==
    /\ pc = "report"
    /\ verdict' = Len(dep_errors)
    /\ pc' = "done"
    /\ UNCHANGED <<is64Bit, enforced, scanned, nscanned, objs, read_errors, last,
                   dep_errors, locals, queries, result, dfs>>

\* error_count = len(read_errors) + len(dep_errors); asserts.assertEqual(error_count, 0)
Report ==
    /\ pc = "report"
    /\ verdict' = Len(read_errors) + Len(dep_errors)
    /\ pc' = "done"
    /\ UNCHANGED <<is64Bit, enforced, scanned, nscanned, objs, read_errors, last,
                   dep_errors, locals, queries, result, dfs>>

Next == LoadFile \/ LoadReturn \/ Test32 \/ Test64 \/ Report

Spec == Init /\ [][Next]_vars

(***************************************************************************)
(* _LoadElfObjects alone, over files with every combination of ELF facts.  *)
(***************************************************************************)
SweepFile == \E i \in DOMAIN SweepPaths : \E f \in SweepFiles(i) : LoadStep(i, f)

SweepReturn ==
    /\ pc = "load"
    /\ pc' = "loaded"
    /\ UNCHANGED <<is64Bit, enforced, scanned, nscanned, objs, read_errors, last,
                   dep_errors, locals, queries, verdict, result, dfs>>

SweepNext == SweepFile \/ SweepReturn

SweepInit == Init /\ enforced

SpecSweep == SweepInit /\ [][SweepNext]_vars

(***************************************************************************)
(* testElfDependency on a device with vendor applications: libraries in    *)
(* two application directories, libraries directly in /vendor/app, a       *)
(* vendor library and a same-process HAL.                                  *)
(***************************************************************************)
AppPaths ==
    << <<"vendor", "lib64", "hw", "libhw.so">>,
       <<"vendor", "lib64", "libfoo.so">>,
       <<"vendor", "app", "libapp.so">>,
       <<"vendor", "app", "libdep.so">>,
       <<"vendor", "app", "App", "libapp.so">>,
       <<"vendor", "app", "App", "libdep.so">>,
       <<"vendor", "app", "Other", "libdep.so">> >>

\* libbaz.so is on the system partition only: no record of the run has its name
AppDeps ==
    { <<"libdep.so", "libc.so">>,
      <<"libfoo.so", "libbaz.so", "libhw.so">>,
      <<"libapp.so", "libvndk.so", "libbaz.so">> }

\* the libraries of an application may be of either bitness
AppFiles(i) ==
    LET path == AppPaths[i]
    IN {SharedLib(path, 64, deps) : deps \in AppDeps}
           \cup (IF Len(path) = 4 /\ path[2] = "app"
                 THEN {SharedLib(path, 32, <<"libdep.so", "libc.so">>)}
                 ELSE {})

AppLoadFile == \E i \in DOMAIN AppPaths : \E f \in AppFiles(i) : LoadStep(i, f)

AppNext == AppLoadFile \/ LoadReturn \/ Test32 \/ Test64 \/ Report

SpecApp == Init /\ [][AppNext]_vars

(***************************************************************************)
(* Vocabulary of the properties.                                           *)
(***************************************************************************)
Bitnesses == {32, 64}

Values(map) == {map[n] : n \in DOMAIN map}

\* the records one step away from the records of S through the map
Successors(S, map) == {map[d] : d \in (UNION {Range(r.deps) : r \in S}) \cap DOMAIN map}

\* the least set that holds the roots and is closed under Successors
RECURSIVE ReachableFrom(_, _)
ReachableFrom(S, map) ==
    IF Successors(S, map) \subseteq S THEN S
    ELSE ReachableFrom(S \cup Successors(S, map), map)

\* the violation list holds an entry of this path that lists this name
Reports(errors, target_path, name) ==
    \E i \in DOMAIN errors : errors[i][1] = target_path /\ name \in Range(errors[i][2])

\* the name is listed by some entry of the violation list
Mentions(errors, name) == \E i \in DOMAIN errors : name \in Range(errors[i][2])

PathsOf(errors) == {errors[i][1] : i \in DOMAIN errors}

Finished == pc \in {"report", "done"}

(***************************************************************************)
(* C1.  In a bitness pass, when the enforcement signal is false no         *)
(* violation of the vendor-namespace check or of the VNDK-SP-extension     *)
(* check is in the returned list (neither the entry nor its path); every   *)
(* violation of the same-process-HAL check is in the returned list for     *)
(* both values of the signal.                                              *)
(***************************************************************************)
C1_Downgrade ==
    \A b \in Bitnesses :
        locals[b].ran =>
            LET l == locals[b] IN
            /\ ~l.enforced =>
                   \A e \in Range(l.vendor_errors) \cup Range(l.ext_errors) :
                       /\ ~InSeq(e, l.returned)
                       /\ e[1] \notin PathsOf(l.returned)
            /\ \A e \in Range(l.sp_hal_errors) : InSeq(e, l.returned)

\* a pass without enforcement that found violations of all three kinds and
\* returned that of an SP-HAL closure member depending on a name only in vndk
C1_Witness ==
    \E b \in Bitnesses :
        /\ locals[b].ran /\ ~locals[b].enforced
        /\ locals[b].vendor_errors # <<>>
        /\ locals[b].ext_errors # <<>>
        /\ \E r \in locals[b].sp_hal_libs :
               /\ "libvndk.so" \in Range(r.deps)
               /\ Reports(locals[b].returned, r.target_path, "libvndk.so")

(***************************************************************************)
(* C2.  As claimed: of two records of one bitness that share a name and    *)
(* lie in same-process link directories the resolver picks the one of      *)
(* higher precedence, and no dependency name that only the shadowed copy   *)
(* declares appears in any violation of the final report.                  *)
(***************************************************************************)
\* hi shadows lo in the same-process namespace of their bitness
Shadows(hi, lo) ==
    /\ hi.bitness = lo.bitness /\ hi.name = lo.name /\ hi # lo
    /\ InSeq(hi.target_dir, SpHalLinkPaths(hi.bitness))
    /\ InSeq(lo.target_dir, SpHalLinkPaths(lo.bitness))
    /\ IndexOf(SpHalLinkPaths(hi.bitness), hi.target_dir)
           < IndexOf(SpHalLinkPaths(lo.bitness), lo.target_dir)

\* the names that no record of the run but r declares
DeclaredOnlyBy(r) == Range(r.deps) \ UNION {Range(o.deps) : o \in Range(objs) \ {r}}

C2_AsClaimed ==
    Finished =>
        \A hi, lo \in Range(objs) :
            (Shadows(hi, lo) /\ locals[lo.bitness].ran) =>
                /\ locals[lo.bitness].sp_hal_namespace[lo.name] # lo
                /\ \A d \in DeclaredOnlyBy(lo) : ~Mentions(dep_errors, d)

(***************************************************************************)
(* C2, amended.  The resolver never picks the shadowed copy (with two      *)
(* copies it picks the one of higher precedence); the shadowed copy is in  *)
(* neither closure and is checked as a vendor object.  A name that only    *)
(* the shadowed copy declares appears in the final report in the entry of  *)
(* the shadowed copy alone: there exactly when enforcement is mandatory    *)
(* and the name is in none of ll_ndk, vndk, vndk_sp and the names of the   *)
(* libraries in the vendor link paths, and nowhere when it is not.         *)
(***************************************************************************)
C2_Shadowed ==
    Finished =>
        \A hi, lo \in Range(objs) :
            (Shadows(hi, lo) /\ locals[lo.bitness].ran) =>
                LET l == locals[lo.bitness] IN
                /\ l.sp_hal_namespace[lo.name] # lo
                /\ (\A o \in Range(objs) : Shadows(o, lo) => o = hi)
                       => l.sp_hal_namespace[lo.name] = hi
                /\ lo \notin l.sp_hal_libs /\ lo \notin l.vndk_sp_ext_deps
                /\ lo \in l.vendor_objs
                /\ \A d \in DeclaredOnlyBy(lo) :
                       /\ \A i \in DOMAIN dep_errors :
                              d \in Range(dep_errors[i][2]) => dep_errors[i][1] = lo.target_path
                       /\ Reports(dep_errors, lo.target_path, d)
                              <=> /\ l.enforced
                                  /\ d \notin ll_ndk \cup vndk \cup vndk_sp
                                  /\ d \notin {x.name : x \in l.vendor_libs}

\* scenario D with enforcement: the shadowed copy's own dependency is reported
C2_Witness ==
    /\ Finished
    /\ \E hi, lo \in Range(objs) :
           /\ Shadows(hi, lo) /\ locals[lo.bitness].ran
           /\ "libforbidden.so" \in DeclaredOnlyBy(lo)
           /\ Reports(dep_errors, lo.target_path, "libforbidden.so")

(***************************************************************************)
(* C5.  As claimed: the enforcement signal is queried exactly once per     *)
(* run, whether one pass or both passes are executed.                      *)
(***************************************************************************)
C5_AsClaimed == pc = "done" => queries = 1

(***************************************************************************)
(* C5, amended.  The enforcement signal is queried once in every bitness   *)
(* pass: once in a run that executes the 32-bit pass only, twice in a run  *)
(* that executes both passes.                                              *)
(***************************************************************************)
C5_QueriedPerPass ==
    /\ queries = Cardinality({b \in Bitnesses : locals[b].ran})
    /\ pc = "done" => queries = (IF is64Bit THEN 2 ELSE 1)

C5_Witness == pc = "done" /\ is64Bit /\ queries = 2 /\ locals[32].ran /\ locals[64].ran

(***************************************************************************)
(* C6.  When enforcement is mandatory, every record of the VNDK-SP         *)
(* extension closure of a pass (the records in the extension directories   *)
(* and all that is reached from them through the same-process namespace    *)
(* map, members of the SP-HAL closure included) that declares a name in    *)
(* vndk but not in ll_ndk, not in vndk_sp and not the name of a library in *)
(* the vendor link paths has an entry listing that name in the report.     *)
(***************************************************************************)
\* the closure, from the records of the run and not from the pass's locals
ExtClosure(b) ==
    ReachableFrom({obj \in Range(objs) : /\ obj.bitness = b
                                         /\ InSeq(obj.target_dir, GetVndkSpExtDirectories(b))},
                  locals[b].sp_hal_namespace)

VendorLinkNames(b) ==
    {obj.name : obj \in {o \in Range(objs) :
        /\ o.bitness = b
        /\ \E i \in DOMAIN VENDOR_LINK_PATHS :
               o.target_dir = FormatVndkPath(VENDOR_LINK_PATHS[i], b)}}

C6_ExtNeverPullsVndk ==
    \A b \in Bitnesses :
        (locals[b].ran /\ locals[b].enforced) =>
            \A r \in ExtClosure(b) : \A d \in Range(r.deps) :
                (/\ d \in vndk /\ d \notin ll_ndk /\ d \notin vndk_sp
                 /\ d \notin VendorLinkNames(b))
                    => Reports(dep_errors, r.target_path, d)

\* a member of both closures, reached from an extension library, is reported
C6_Witness ==
    \E b \in Bitnesses :
        /\ locals[b].ran /\ locals[b].enforced
        /\ \E r \in ExtClosure(b) \cap locals[b].sp_hal_libs :
               /\ r.target_dir \notin Range(GetVndkSpExtDirectories(b))
               /\ "libvndk.so" \in Range(r.deps)
               /\ Reports(dep_errors, r.target_path, "libvndk.so")
        /\ \E r \in ExtClosure(b) \ locals[b].sp_hal_libs :
               Reports(dep_errors, r.target_path, "libvndk.so")

(***************************************************************************)
(* The eligibility rules, read off the last file of the sweep.             *)
(***************************************************************************)
Swept == last.outcome # "none"

AbiMatches(file) ==
    \E i \in DOMAIN GetCpuAbiList(is64Bit) : MatchCpuAbi(file.elf, GetCpuAbiList(is64Bit)[i])

HasForeignInterp(file) ==
    file.elf.interp \notin {"", "/system/bin/linker", "/system/bin/linker64"}

\* a candidate for rule 3: a readable executable that matches the ABI list
Rule3Candidate(file) ==
    /\ file.elf.is_elf /\ AbiMatches(file)
    /\ file.elf.e_type = "ET_EXEC" /\ file.elf.fail # "interp"

(***************************************************************************)
(* C3.  As claimed: an executable that matches the ABI list is excluded    *)
(* exactly when it declares an interpreter, the interpreter is not one of  *)
(* the two default linkers, and the file has execute permission; without   *)
(* execute permission it is eligible.                                      *)
(***************************************************************************)
C3_AsClaimed ==
    (Swept /\ Rule3Candidate(last.file) /\ last.file.elf.fail = "none") =>
        (last.outcome = "not_for_ap" <=> (HasForeignInterp(last.file) /\ last.file.perm_x))

(***************************************************************************)
(* C3, amended.  An executable that matches the ABI list is excluded       *)
(* exactly when it declares an interpreter, the interpreter is not one of  *)
(* the two default linkers, and the file does NOT have execute permission; *)
(* with execute permission it is eligible.                                 *)
(***************************************************************************)
C3_ExcludedWithoutExecPermission ==
    (Swept /\ Rule3Candidate(last.file)) =>
        (last.outcome = "not_for_ap" <=> (HasForeignInterp(last.file) /\ ~last.file.perm_x))

C3_Witness ==
    /\ Swept /\ Rule3Candidate(last.file)
    /\ HasForeignInterp(last.file) /\ ~last.file.perm_x
    /\ last.outcome = "not_for_ap"
    /\ objs # <<>>

(***************************************************************************)
(* C4.  As claimed: a record without the build-origin marker is excluded   *)
(* unless it is a shared object under the legacy library directory or an   *)
(* executable with a non-default interpreter and execute permission under  *)
(* the legacy binary directory; a record with the marker is never excluded *)
(* by this rule.                                                           *)
(***************************************************************************)
\* the file reached rule 4 and the parser did not raise in it
Rule4Candidate(file) ==
    /\ file.elf.is_elf
    /\ IsElfObjectForAp(file.elf, file.perm_x, GetCpuAbiList(is64Bit)) = "True"
    /\ file.elf.fail # "interp"

UnderLegacyLib(file) ==
    Len(file.target_path) > 3 /\ SubSeq(file.target_path, 1, 3) = <<"vendor", "arib", "lib">>

UnderLegacyBin(file) ==
    Len(file.target_path) > 3 /\ SubSeq(file.target_path, 1, 3) = <<"vendor", "arib", "bin">>

C4_AsClaimed ==
    (Swept /\ Rule4Candidate(last.file) /\ last.file.elf.fail = "none") =>
        LET f == last.file
            exception ==
                \/ UnderLegacyLib(f) /\ f.elf.e_type = "ET_DYN"
                \/ /\ UnderLegacyBin(f) /\ f.elf.e_type = "ET_EXEC"
                   /\ HasForeignInterp(f) /\ f.perm_x
        IN IF f.elf.has_android_ident THEN last.outcome # "not_built"
           ELSE (last.outcome = "not_built" <=> ~exception)

(***************************************************************************)
(* C4, amended.  A record without the build-origin marker is excluded only *)
(* in the two legacy-directory cases: a shared object under                *)
(* /vendor/arib/lib/ whose path contains ".so", and a file under           *)
(* /vendor/arib/bin/ with a non-default interpreter that is an executable  *)
(* or has execute permission.  Everywhere else the missing marker does not *)
(* exclude it; a record with the marker is never excluded by this rule.    *)
(***************************************************************************)
C4_ExcludedInLegacyDirsOnly ==
    (Swept /\ Rule4Candidate(last.file)) =>
        LET f == last.file
            legacy ==
                \/ /\ UnderLegacyLib(f) /\ f.elf.e_type = "ET_DYN"
                   /\ \E i \in DOMAIN f.target_path : f.target_path[i] \in DotSoSegments
                \/ /\ UnderLegacyBin(f) /\ HasForeignInterp(f)
                   /\ (f.elf.e_type = "ET_EXEC" \/ f.perm_x)
        IN IF f.elf.has_android_ident THEN last.outcome # "not_built"
           ELSE (last.outcome = "not_built" <=> legacy)

\* a shared object with a foreign interpreter and execute permission under
\* the legacy binary directory is excluded for its missing marker
C4_Witness ==
    /\ Swept /\ Rule4Candidate(last.file)
    /\ ~last.file.elf.has_android_ident
    /\ UnderLegacyBin(last.file) /\ last.file.elf.e_type = "ET_DYN" /\ last.file.perm_x
    /\ last.outcome = "not_built"
    /\ objs # <<>>

(***************************************************************************)
(* The pure functions, applied to lists of objects given in any order.     *)
(***************************************************************************)
PurePaths ==
    { <<"odm", "lib64", "hw", "libhw.so">>,
      <<"vendor", "lib64", "egl", "libhw.so">>,
      <<"vendor", "lib64", "libhw.so">>,
      <<"vendor", "lib64", "libfoo.so">>,
      <<"vendor", "lib64", "vndk-sp", "libext.so">> }

PureDeps ==
    { <<>>,
      <<"libc.so", "libhw.so">>,
      <<"libfoo.so", "libvndk.so", "libfoo.so">> }

\* 64-bit objects, and a 32-bit object that lies in a 64-bit directory
PureObjs ==
    {ElfObject(path, 64, deps) : path \in PurePaths, deps \in PureDeps}
        \cup {ElfObject(<<"vendor", "lib64", "libhw.so">>, 32, <<"libfoo.so">>)}

\* the lists of at most MaxObjs objects with distinct target paths
PureInputs ==
    UNION {{q \in [1..n -> PureObjs] :
               \A i, j \in 1..n : i # j => q[i].target_path # q[j].target_path} :
           n \in 0..MaxObjs}

PureInit ==
    /\ pc = "pure"
    /\ objs \in PureInputs
    /\ is64Bit = TRUE
    /\ enforced = TRUE
    /\ scanned = 0
    /\ nscanned = 0
    /\ read_errors = <<>>
    /\ last = [file |-> NoFile, outcome |-> "none"]
    /\ dep_errors = <<>>
    /\ locals = [b \in {32, 64} |-> NotRun]
    /\ queries = 0
    /\ verdict = -1
    /\ result = NoResult
    /\ dfs = NoDfs

PureUnchanged ==
    UNCHANGED <<is64Bit, enforced, scanned, nscanned, objs, read_errors, last,
                dep_errors, locals, queries, verdict, dfs>>

\* sp_hal_namespace = self._FindLibsInSpHalNamespace(bitness, objs)
ApplyFindLibs ==
    /\ pc = "pure"
    /\ \E bitness \in {32, 64} :
           result' = [op |-> "find", bitness |-> bitness,
                      linkable |-> FindLibsInSpHalNamespace(bitness, objs)]
    /\ pc' = "applied"
    /\ PureUnchanged

\* searched = set(); for lib in roots: self._DfsDependencies(lib, searched, searchable)
ApplyDfs ==
    /\ pc = "pure"
    /\ \E roots \in SUBSET Range(objs) : \E order \in Orders(roots) :
           LET searchable == FindLibsInSpHalNamespace(64, objs)
           IN result' = [op |-> "dfs", roots |-> roots, searchable |-> searchable,
                         searched |-> DfsEach(order, {}, searchable)]
    /\ pc' = "closed"
    /\ PureUnchanged

\* the same, with the set searched by the first application as the roots
ApplyDfsAgain ==
    /\ pc = "closed"
    /\ \E order \in Orders(result.searched) :
           result' = [op |-> "dfs2", roots |-> result.roots,
                      searchable |-> result.searchable, first |-> result.searched,
                      second |-> DfsEach(order, {}, result.searchable)]
    /\ pc' = "applied"
    /\ PureUnchanged

\* self._FilterDisallowedDependencies(objs, is_allowed_dep), with the
\* predicate of one of the three checks
ApplyFilter ==
    /\ pc = "pure"
    /\ \E check \in {"vendor", "vndk_sp_ext", "sp_hal"} :
           LET vendor_libs == {obj \in Range(objs) : /\ obj.bitness = 64
                                                     /\ InSeq(obj.target_dir, VendorLinkPaths(64))}
               is_allowed_dep ==
                   IF check = "vendor" THEN VendorIsAllowedDep(objs, vendor_libs)
                   ELSE IF check = "vndk_sp_ext" THEN VndkSpExtIsAllowedDep(objs, vendor_libs)
                   ELSE SpHalIsAllowedDep(objs)
           IN result' = [op |-> "filter", check |-> check, is_allowed_dep |-> is_allowed_dep,
                         errors |-> FilterDisallowedDependencies(objs, is_allowed_dep)]
    /\ pc' = "applied"
    /\ PureUnchanged

PureNext == ApplyFindLibs \/ ApplyDfs \/ ApplyDfsAgain \/ ApplyFilter

SpecPure == PureInit /\ [][PureNext]_vars

(***************************************************************************)
(* _DfsDependencies call by call.  dfs.stack holds one frame per call that *)
(* has not returned: its lib and the position i of the dep_name its loop   *)
(* reads next.  dfs.roots are the libraries the caller has yet to pass,    *)
(* dfs.expanded counts, per record, how often the loop over its deps was   *)
(* started.                                                                *)
(***************************************************************************)
DfsPaths ==
    << <<"odm", "lib64", "hw", "libhw.so">>,
       <<"vendor", "lib64", "libhw.so">>,
       <<"vendor", "lib64", "libfoo.so">>,
       <<"vendor", "lib64", "vndk-sp", "libext.so">> >>

\* with these a record may depend on itself, on a record that depends on it,
\* on a name no record has, or on nothing
DfsDepLists ==
    { <<>>,
      <<"libhw.so", "libc.so", "libfoo.so">>,
      <<"libfoo.so", "libhw.so", "libfoo.so">> }

\* the lists of at most MaxObjs records, in the order of DfsPaths
DfsInputs ==
    UNION {{q \in [1..n -> {ElfObject(DfsPaths[k], 64, deps) :
                                k \in DOMAIN DfsPaths, deps \in DfsDepLists}] :
               \A i, j \in 1..n :
                   i < j => IndexOf(DfsPaths, q[i].target_path)
                                < IndexOf(DfsPaths, q[j].target_path)} :
           n \in 0..MaxObjs}

\* self._DfsDependencies(lib, searched, searchable), up to its loop
DfsEnter(d, lib) ==
    IF lib \in d.searched THEN d
    ELSE [d EXCEPT !.searched = @ \cup {lib},
                   !.stack = Append(@, [lib |-> lib, i |-> 1]),
                   !.expanded[lib] = @ + 1]

DfsUnchanged ==
    UNCHANGED <<pc, is64Bit, enforced, scanned, nscanned, objs, read_errors, last,
                dep_errors, locals, queries, verdict, result>>

\* a variant in which the caller's loop passes every library on unchecked
DfsRootUnchecked ==
    /\ pc = "dfs"
    /\ dfs.stack = <<>> /\ dfs.roots # <<>>
    /\ LET lib == Head(dfs.roots)
       IN dfs' = [dfs EXCEPT !.roots = Tail(@),
                             !.searched = @ \cup {lib},
                             !.stack = Append(@, [lib |-> lib, i |-> 1]),
                             !.expanded[lib] = @ + 1]
    /\ DfsUnchanged

\* for lib in roots: self._DfsDependencies(lib, searched, searchable)
DfsRoot ==
    /\ pc = "dfs"
    /\ dfs.stack = <<>> /\ dfs.roots # <<>>
    /\ dfs' = DfsEnter([dfs EXCEPT !.roots = Tail(@)], Head(dfs.roots))
    /\ DfsUnchanged

\* one iteration of for dep_name in lib.deps, in the innermost call
DfsDep ==
    /\ pc = "dfs"
    /\ dfs.stack # <<>>
    /\ LET top == dfs.stack[Len(dfs.stack)]
       IN /\ top.i <= Len(top.lib.deps)
          /\ LET dep_name == top.lib.deps[top.i]
                 advanced == [dfs EXCEPT !.stack[Len(dfs.stack)].i = @ + 1]
             IN dfs' = IF dep_name \in DOMAIN dfs.searchable
                       THEN DfsEnter(advanced, dfs.searchable[dep_name])
                       ELSE advanced
    /\ DfsUnchanged

\* the loop of the innermost call is exhausted: the call returns
DfsReturn ==
    /\ pc = "dfs"
    /\ dfs.stack # <<>>
    /\ dfs.stack[Len(dfs.stack)].i > Len(dfs.stack[Len(dfs.stack)].lib.deps)
    /\ dfs' = [dfs EXCEPT !.stack = SubSeq(@, 1, Len(@) - 1)]
    /\ DfsUnchanged

\* the caller's loop is exhausted
DfsFinish ==
    /\ pc = "dfs"
    /\ dfs.stack = <<>> /\ dfs.roots = <<>>
    /\ pc' = "searched"
    /\ UNCHANGED <<is64Bit, enforced, scanned, nscanned, objs, read_errors, last,
                   dep_errors, locals, queries, verdict, result, dfs>>

DfsNext == DfsRoot \/ DfsDep \/ DfsReturn \/ DfsFinish

DfsInit ==
    /\ pc = "dfs"
    /\ objs \in DfsInputs
    /\ \E roots \in SUBSET Range(objs) : \E order \in Orders(roots) :
           dfs = [given |-> order, roots |-> order, stack |-> <<>>, searched |-> {},
                  searchable |-> FindLibsInSpHalNamespace(64, objs),
                  expanded |-> [r \in Range(objs) |-> 0]]
    /\ is64Bit = TRUE
    /\ enforced = TRUE
    /\ scanned = 0
    /\ nscanned = 0
    /\ read_errors = <<>>
    /\ last = [file |-> NoFile, outcome |-> "none"]
    /\ dep_errors = <<>>
    /\ locals = [b \in {32, 64} |-> NotRun]
    /\ queries = 0
    /\ verdict = -1
    /\ result = NoResult

SpecDfs == DfsInit /\ [][DfsNext]_vars

\* the interpreter runs the next step of the program whenever there is one
SpecDfsLive == DfsInit /\ [][DfsNext]_vars /\ WF_vars(DfsNext)

(***************************************************************************)
(* C7.  _FindLibsInSpHalNamespace returns a map with one record per name:  *)
(* its keys are the names of the given-bitness records that lie in the     *)
(* same-process link directories, and each name maps to the record of that *)
(* name whose directory has the lowest index in the ordered link-path list *)
(* (positions 2 and 4 resolve to position 2).  The map is the same for     *)
(* every order in which the records are presented.                         *)
(***************************************************************************)
LinkIndex(obj) == IndexOf(SpHalLinkPaths(obj.bitness), obj.target_dir)

SpHalCandidates(bitness, records) ==
    {obj \in records : /\ obj.bitness = bitness
                       /\ obj.target_dir \in Range(SpHalLinkPaths(bitness))}

C7_LowestIndexWins ==
    result.op = "find" =>
        LET linkable == result.linkable
            candidates == SpHalCandidates(result.bitness, Range(objs))
        IN /\ DOMAIN linkable = {obj.name : obj \in candidates}
           /\ \A name \in DOMAIN linkable :
                  /\ linkable[name] \in candidates
                  /\ linkable[name].name = name
                  /\ \A obj \in candidates :
                         obj.name = name => LinkIndex(linkable[name]) <= LinkIndex(obj)
           /\ \A order \in Orders(Range(objs)) :
                  FindLibsInSpHalNamespace(result.bitness, order) = linkable

\* copies at positions 4 and 2, presented in this order, and a third one
C7_Witness ==
    /\ result.op = "find" /\ result.bitness = 64 /\ Len(objs) = 3
    /\ objs[1].target_dir = SpHalLinkPaths(64)[4]
    /\ objs[2].target_dir = SpHalLinkPaths(64)[2]
    /\ objs[3].target_dir = SpHalLinkPaths(64)[6]
    /\ objs[1].name = objs[2].name /\ objs[2].name = objs[3].name
    /\ objs[3].bitness = 64
    /\ result.linkable[objs[1].name] = objs[2]

(***************************************************************************)
(* C8.  The set searched by _DfsDependencies from a set of roots over a    *)
(* name->record map is exactly the roots and every record reachable from a *)
(* root by dependency names that are keys of the map: nothing unreachable  *)
(* is in it, also when reachable records form a cycle, and names absent    *)
(* from the map are not followed.                                          *)
(***************************************************************************)
C8_ExactlyReachable ==
    result.op = "dfs" =>
        /\ result.searched = ReachableFrom(result.roots, result.searchable)
        /\ result.roots \subseteq result.searched
        /\ \A r \in result.searched \ result.roots :
               \E q \in result.searched :
                   \E d \in Range(q.deps) \cap DOMAIN result.searchable :
                       result.searchable[d] = r

\* a cycle of two reached records, a name absent from the map, and a record
\* of the input that is not reached
C8_Witness ==
    /\ result.op = "dfs"
    /\ Cardinality(result.roots) = 1
    /\ \E a, b \in result.searched :
           /\ a # b /\ a \in result.roots
           /\ b.name \in Range(a.deps) /\ a.name \in Range(b.deps)
           /\ {a.name, b.name} \subseteq DOMAIN result.searchable
           /\ result.searchable[a.name] = a /\ result.searchable[b.name] = b
           /\ \E d \in Range(a.deps) \cup Range(b.deps) : d \notin DOMAIN result.searchable
    /\ Range(objs) \ result.searched # {}

(***************************************************************************)
(* C9.  The closure is idempotent: searching again with the set searched   *)
(* the first time as the roots, over the same map, gives the same set.     *)
(***************************************************************************)
C9_Idempotent == result.op = "dfs2" => result.second = result.first

\* a first closure that is larger than its roots
C9_Witness ==
    /\ result.op = "dfs2"
    /\ result.second = result.first
    /\ Cardinality(result.first) > Cardinality(result.roots)
    /\ result.roots # {}

(***************************************************************************)
(* C10.  _FilterDisallowedDependencies emits, in the order of its input,   *)
(* one pair per record that declares a name the predicate rejects: the     *)
(* record's target path and the rejected names in declared order,          *)
(* duplicates kept.  A record all of whose names are permitted has no      *)
(* entry, and no entry has an empty list.                                  *)
(***************************************************************************)
\* the elements of a finite set of numbers in increasing order
Increasing(S) ==
    CHOOSE q \in [1..Cardinality(S) -> S] : \A i, j \in DOMAIN q : i < j => q[i] < q[j]

\* the positions of obj.deps that the predicate rejects
Rejected(obj, is_allowed) == {k \in DOMAIN obj.deps : ~is_allowed[obj.deps[k], obj]}

C10_FilterEmits ==
    result.op = "filter" =>
        LET errors == result.errors
            hit == Increasing({i \in DOMAIN objs : Rejected(objs[i], result.is_allowed_dep) # {}})
        IN /\ Len(errors) = Len(hit)
           /\ \A j \in DOMAIN errors :
                  LET obj == objs[hit[j]]
                      at == Increasing(Rejected(obj, result.is_allowed_dep))
                  IN /\ errors[j][1] = obj.target_path
                     /\ errors[j][2] = [m \in DOMAIN at |-> obj.deps[at[m]]]
                     /\ errors[j][2] # <<>>
           /\ \A i \in DOMAIN objs :
                  Rejected(objs[i], result.is_allowed_dep) = {}
                      => objs[i].target_path \notin PathsOf(errors)

\* two entries around a record without one; a rejected name listed twice
C10_Witness ==
    /\ result.op = "filter" /\ Len(objs) = 3 /\ Len(result.errors) = 2
    /\ result.errors[1][1] = objs[1].target_path
    /\ result.errors[2][1] = objs[3].target_path
    /\ objs[2].deps # <<>>
    /\ result.errors[2][2] = <<"libfoo.so", "libfoo.so">>
    /\ Len(objs[3].deps) = 3

(***************************************************************************)
(* C11.  As claimed: in the vendor-namespace check a dependency name D of  *)
(* a checked record R is allowed if and only if D is in ll_ndk, vndk or    *)
(* vndk_sp, or D is the name of a record of the vendor-namespace set, or R *)
(* and a vendor-checked record named D both live in the same designated    *)
(* vendor application directory (they have the same directory, and it is   *)
(* /vendor/app, /vendor/priv-app, /odm/app or /odm/priv-app or lies below  *)
(* one of them); every other declared dependency of R is reported.         *)
(***************************************************************************)
\* the vendor-namespace set of a pass, from the records of the run
VendorNamespace(b) ==
    {o \in Range(objs) : /\ o.bitness = b
                         /\ \E i \in DOMAIN VENDOR_LINK_PATHS :
                                o.target_dir = FormatVndkPath(VENDOR_LINK_PATHS[i], b)}

InGoldenForVendor(d) == d \in ll_ndk \/ d \in vndk \/ d \in vndk_sp

\* the record lives in the designated vendor application directory app_dir:
\* directly in it or in a directory below it
LivesIn(r, app_dir) ==
    /\ Len(r.target_path) > Len(app_dir)
    /\ \A k \in DOMAIN app_dir : r.target_path[k] = app_dir[k]

\* the entries of the vendor check list, for every checked record, exactly
\* the declared names that are not allowed, in declared order
VendorCheckReports(b, allowed) ==
    LET l == locals[b] IN
    /\ PathsOf(l.vendor_errors) \subseteq {r.target_path : r \in l.vendor_objs}
    /\ \A r \in l.vendor_objs :
           LET bad == {k \in DOMAIN r.deps : ~allowed[r, r.deps[k]]}
               entries == {i \in DOMAIN l.vendor_errors :
                              l.vendor_errors[i][1] = r.target_path}
           IN IF bad = {} THEN entries = {}
              ELSE /\ Cardinality(entries) = 1
                   /\ \A i \in entries :
                          l.vendor_errors[i][2] = [m \in 1..Cardinality(bad) |->
                                                      r.deps[Increasing(bad)[m]]]
                   /\ l.enforced => \A k \in bad : Reports(dep_errors, r.target_path, r.deps[k])

C11_AsClaimed ==
    \A b \in Bitnesses :
        locals[b].ran =>
            VendorCheckReports(b,
                [r \in locals[b].vendor_objs, d \in DepNames(objs) |->
                    \/ InGoldenForVendor(d)
                    \/ d \in {o.name : o \in VendorNamespace(b)}
                    \/ \E i \in DOMAIN VENDOR_APP_DIRS :
                           /\ LivesIn(r, VENDOR_APP_DIRS[i])
                           /\ \E o \in locals[b].vendor_objs :
                                  /\ o.name = d /\ LivesIn(o, VENDOR_APP_DIRS[i])
                                  /\ o.target_dir = r.target_dir])

(***************************************************************************)
(* C11, amended.  D is allowed for R if and only if D is in ll_ndk, vndk   *)
(* or vndk_sp, or D is the name of a record of the vendor-namespace set    *)
(* (same bitness, directory in the vendor link paths, SP-HAL members       *)
(* included), or a vendor-checked record named D has the very directory of *)
(* R and that directory lies below (not at) one of the designated vendor   *)
(* application directories.  Records in two different subdirectories of    *)
(* /vendor/app, and records directly in /vendor/app, get no exception.     *)
(* Every other declared dependency of R is listed, in declared order, in   *)
(* the one entry of R, which is in the final report when enforcement is    *)
(* mandatory.                                                              *)
(***************************************************************************)
C11_SameDirectoryBelowAppDir ==
    \A b \in Bitnesses :
        locals[b].ran =>
            VendorCheckReports(b,
                [r \in locals[b].vendor_objs, d \in DepNames(objs) |->
                    \/ InGoldenForVendor(d)
                    \/ d \in {o.name : o \in VendorNamespace(b)}
                    \/ /\ \E i \in DOMAIN VENDOR_APP_DIRS :
                              /\ Len(r.target_dir) > Len(VENDOR_APP_DIRS[i])
                              /\ \A k \in DOMAIN VENDOR_APP_DIRS[i] :
                                     r.target_dir[k] = VENDOR_APP_DIRS[i][k]
                       /\ \E o \in locals[b].vendor_objs :
                              o.name = d /\ o.target_dir = r.target_dir])

\* an application library whose co-located dependency is allowed; a library
\* directly in /vendor/app that names that application library and a name
\* found on no record (a system library), and has both reported
C11_Witness ==
    /\ pc = "done" /\ locals[64].ran /\ locals[64].enforced
    /\ \E r, o, p \in locals[64].vendor_objs :
           /\ r.target_dir = <<"vendor", "app", "App">> /\ o.target_dir = r.target_dir
           /\ r.name = "libapp.so" /\ o.name = "libdep.so"
           /\ r.deps = <<"libdep.so", "libc.so">>
           /\ r.target_path \notin PathsOf(dep_errors)
           /\ p.target_dir = <<"vendor", "app">> /\ p.deps = <<"libapp.so", "libvndk.so", "libbaz.so">>
           /\ \E i \in DOMAIN dep_errors :
                  dep_errors[i] = <<p.target_path, <<"libapp.so", "libbaz.so">> >>

(***************************************************************************)
(* C12.  The count the run asserts to be zero is the number of read errors *)
(* plus the number of entries of the merged violation list: the list of    *)
(* the 32-bit pass followed, on a 64-bit device, by that of the 64-bit     *)
(* pass, each being the vendor and VNDK-SP-extension violations when       *)
(* enforcement is mandatory (none when it is not) followed by the          *)
(* same-process-HAL violations.  The run succeeds (count zero) if and only *)
(* if the read-error list and the merged list are both empty.              *)
(***************************************************************************)
\* what a pass contributes after the enforcement-downgrade rule
PassViolations(b) ==
    (IF locals[b].enforced THEN locals[b].vendor_errors \o locals[b].ext_errors ELSE <<>>)
        \o locals[b].sp_hal_errors

MergedViolations ==
    PassViolations(32) \o (IF is64Bit THEN PassViolations(64) ELSE <<>>)

C12_ExitContract ==
    pc = "done" =>
        /\ locals[32].ran /\ (locals[64].ran <=> is64Bit)
        /\ dep_errors = MergedViolations
        /\ verdict = Len(read_errors) + Len(MergedViolations)
        /\ verdict = 0 <=> (read_errors = <<>> /\ MergedViolations = <<>>)

\* a run without mandatory enforcement that fails with a count of three: a
\* read error and a same-process-HAL violation of each pass
C12_Witness ==
    /\ pc = "done" /\ is64Bit /\ ~enforced
    /\ read_errors # <<>>
    /\ locals[32].sp_hal_errors # <<>> /\ locals[64].sp_hal_errors # <<>>
    /\ verdict = 3

(***************************************************************************)
(* C13.  Every closure computation terminates: the loop of the caller over *)
(* its roots and every call of _DfsDependencies return, whatever cycles,   *)
(* self-dependencies or absence of edges the records have.  The loop over  *)
(* a record's dependency list is started at most once per computation: a   *)
(* record in the searched set is never expanded again, also when a later   *)
(* root or a later dependency name leads to it.  At the end the records    *)
(* expanded once are exactly those of the searched set.                    *)
(***************************************************************************)
C13_TerminatesExpandingOnce ==
    /\ <>(pc = "searched")
    /\ [](\A r \in Range(objs) : dfs.expanded[r] <= 1)
    /\ [][\A r \in dfs.searched : dfs'.expanded[r] = dfs.expanded[r]]_vars
    /\ [](pc = "searched" =>
             /\ dfs.searched = DfsEach(dfs.given, {}, dfs.searchable)
             /\ \A r \in Range(objs) : dfs.expanded[r] = 1 <=> r \in dfs.searched)

\* a finished computation over two records that depend on each other and
\* on themselves, both given as roots: the second root was searched already
C13_Witness ==
    /\ pc = "searched"
    /\ Len(dfs.given) = 2
    /\ \A i, j \in {1, 2} :
           /\ dfs.given[i].name \in Range(dfs.given[j].deps)
           /\ dfs.given[i].name \in DOMAIN dfs.searchable
           /\ dfs.searchable[dfs.given[i].name] = dfs.given[i]
    /\ dfs.searched = Range(dfs.given)
    /\ \A r \in dfs.searched : dfs.expanded[r] = 1

(***************************************************************************)
(* C14.  In every iteration of the sweep: a file that is an ELF file and   *)
(* makes the parser raise while the sweep reads its interpreter or its     *)
(* dependencies is passed once to the error callback with its target path  *)
(* and adds no record; a file that is not an ELF file adds nothing to the  *)
(* read errors and no record; the sweep goes on after either, and an       *)
(* eligible file yields its record whatever was met before it.  No path is *)
(* in the read-error list twice, and none is there and in the records.     *)
(***************************************************************************)
\* the step is an iteration of the loop of _LoadElfObjects, on last'.file
SweepStep == nscanned' = nscanned + 1

ForAp(file) == IsElfObjectForAp(file.elf, file.perm_x, GetCpuAbiList(is64Bit))

\* rule 4 finds no marker, is not in its shared-object case and reads the
\* interpreter of a file under the legacy binary directory
Rule4ReadsInterp(file) ==
    /\ ~file.elf.has_android_ident
    /\ ~(UnderLegacyLib(file) /\ ContainsDotSo(file.target_path)
            /\ file.elf.e_type = "ET_DYN")
    /\ UnderLegacyBin(file)

\* the parser raises in an accessor that the sweep calls for this file
ExtractionFails(file) ==
    /\ file.elf.is_elf
    /\ \/ /\ AbiMatches(file) /\ file.elf.e_type = "ET_EXEC"
          /\ file.elf.fail = "interp"
       \/ /\ ForAp(file) = "True" /\ Rule4ReadsInterp(file)
          /\ file.elf.fail = "interp"
       \/ /\ ForAp(file) = "True"
          /\ IsElfObjectBuiltForAndroid(file.elf, file.target_path, file.perm_x) = "True"
          /\ file.elf.fail = "deps"

\* the file passes both rules and its dependencies are listed
Eligible(file) ==
    /\ file.elf.is_elf
    /\ ForAp(file) = "True"
    /\ IsElfObjectBuiltForAndroid(file.elf, file.target_path, file.perm_x) = "True"
    /\ file.elf.fail # "deps"

\* no path is reported twice, and no reported path has a record
ReadErrorsApart ==
    /\ \A i, j \in DOMAIN read_errors : read_errors[i][1] = read_errors[j][1] => i = j
    /\ PathsOf(read_errors) \cap {o.target_path : o \in Range(objs)} = {}
    /\ Len(read_errors) + Len(objs) <= nscanned

C14_ReadErrors ==
    /\ [][SweepStep =>
            LET f == last'.file IN
            /\ pc' = pc
            /\ ExtractionFails(f) =>
                   /\ read_errors' = Append(read_errors, <<f.target_path, "ElfError">>)
                   /\ objs' = objs
            /\ ~ExtractionFails(f) => read_errors' = read_errors
            /\ ~f.elf.is_elf => objs' = objs
            /\ Eligible(f) =>
                   objs' = Append(objs, ElfObject(f.target_path, f.elf.bitness, f.elf.deps))
            /\ ~Eligible(f) => objs' = objs]_vars
    /\ []ReadErrorsApart

\* a sweep of three files: a record, then a file whose dependencies cannot
\* be listed, then another record
C14_Witness ==
    /\ nscanned = 3 /\ Len(objs) = 2 /\ Len(read_errors) = 1
    /\ objs[1].target_path = SweepPaths[1]
    /\ read_errors[1][1] = SweepPaths[3]
    /\ objs[2].target_path = SweepPaths[4]
    /\ last.file.target_path = SweepPaths[4] /\ last.outcome = "loaded"

(***************************************************************************)
(* C15.  For every record that is in both the SP-HAL closure and the       *)
(* VNDK-SP-extension closure of a pass, the same-process-HAL predicate and *)
(* the VNDK-SP-extension predicate reject the same of its dependency       *)
(* names, and the entry the same-process-HAL check lists for the record is *)
(* the entry the extension check would list for it (none if it would list  *)
(* none).                                                                  *)
(***************************************************************************)
\* the records of a pass that are in both closures
Overlap(b) == locals[b].sp_hal_libs \cap locals[b].vndk_sp_ext_deps

\* the entries of a violation list that are of this record
EntriesOf(errors, r) == SelectSeq(errors, LAMBDA e : e[1] = r.target_path)

C15_OverlapCheckedAlike ==
    \A b \in Bitnesses :
        locals[b].ran =>
            LET l == locals[b]
                sp_hal_order == CHOOSE q \in Orders(l.sp_hal_libs) : TRUE
                ext_order == CHOOSE q \in Orders(l.vndk_sp_ext_deps) : TRUE
                sp_hal_allows == SpHalIsAllowedDep(sp_hal_order)
                ext_allows == VndkSpExtIsAllowedDep(ext_order, l.vendor_libs)
            IN \A r \in Overlap(b) :
                   /\ \A d \in Range(r.deps) : sp_hal_allows[d, r] <=> ext_allows[d, r]
                   /\ EntriesOf(l.sp_hal_errors, r)
                          = TestVndkSpExtDependency(<<r>>, l.vendor_libs)
                   /\ EntriesOf(l.ext_errors, r) = <<>>

\* a record of both closures with a name that both predicates reject and a
\* name that both allow as that of a library in the vendor link paths
C15_Witness ==
    \E b \in Bitnesses :
        /\ locals[b].ran
        /\ \E r \in Overlap(b) :
               /\ r.deps = <<"libfoo.so", "libvndk.so">>
               /\ "libfoo.so" \in {x.name : x \in locals[b].vendor_libs}
               /\ EntriesOf(locals[b].sp_hal_errors, r) = << <<r.target_path, <<"libvndk.so">> >> >>
               /\ r.target_dir \notin Range(GetVndkSpExtDirectories(b))

(***************************************************************************)
(* C16.  In each bitness pass the set given to the vendor check, the set   *)
(* given to the VNDK-SP-extension check (the extension closure minus the   *)
(* SP-HAL closure) and the set given to the same-process-HAL check (the    *)
(* SP-HAL closure) are pairwise disjoint and their union is the set of the *)
(* loaded records of that bitness; the entries of each check are of its    *)
(* own records, one at most per record, and with distinct target paths no  *)
(* target path occurs in two entries of the final merged violation list.   *)
(***************************************************************************)
PathsOfRecords(records) == {r.target_path : r \in records}

\* no two entries of the list have the same path
OneEntryPerPath(errors) ==
    \A i, j \in DOMAIN errors : errors[i][1] = errors[j][1] => i = j

DistinctTargetPaths ==
    \A i, j \in DOMAIN objs : objs[i].target_path = objs[j].target_path => i = j

C16_CheckedOnce ==
    /\ \A b \in Bitnesses :
           locals[b].ran =>
               LET l == locals[b]
                   V == l.vendor_objs
                   E == l.ext_checked
                   H == l.sp_hal_libs
               IN /\ V \cap E = {} /\ V \cap H = {} /\ E \cap H = {}
                  /\ V \cup E \cup H = {o \in Range(objs) : o.bitness = b}
                  /\ E = l.vndk_sp_ext_deps \ l.sp_hal_libs
                  /\ PathsOf(l.vendor_errors) \subseteq PathsOfRecords(V)
                  /\ PathsOf(l.ext_errors) \subseteq PathsOfRecords(E)
                  /\ PathsOf(l.sp_hal_errors) \subseteq PathsOfRecords(H)
                  /\ OneEntryPerPath(l.vendor_errors \o l.ext_errors \o l.sp_hal_errors)
    /\ (Finished /\ DistinctTargetPaths) => OneEntryPerPath(dep_errors)

\* a finished run with enforcement whose 64-bit pass has records in each of
\* the three sets, a record in both closures, and an entry of each check
C16_Witness ==
    /\ pc = "done" /\ enforced /\ locals[64].ran
    /\ locals[64].vendor_errors # <<>>
    /\ locals[64].ext_errors # <<>>
    /\ locals[64].sp_hal_errors # <<>>
    /\ locals[64].sp_hal_libs \cap locals[64].vndk_sp_ext_deps # {}
    /\ Len(dep_errors) = 3
    /\ \E r \in locals[64].sp_hal_libs \cap locals[64].vndk_sp_ext_deps :
           r.target_path \in PathsOf(dep_errors)

====
